---- MODULE Spec2Model ----
(***************************************************************************)
(* A model of the meme_echo plugin (src/main.py): a content-addressed      *)
(* image registry (store directory, index, alias table), the per-sender    *)
(* "awaiting capture" sessions, and the two message handlers meme_cmd and  *)
(* on_group_message.                                                       *)
(*                                                                         *)
(* Strings are sequences of character codes, so that upper(), lower(),     *)
(* strip(), Path.stem and Path.suffix are computed, not assumed.           *)
(* A dict is a function on its key set.  The text of a reply is reduced to *)
(* its kind and the values it carries.                                     *)
(*                                                                         *)
(* Environment assumptions: writes and unlinks inside the plugin's data    *)
(* directory succeed, and MD5 has no collision among the blobs considered. *)
(* Under Spec nothing but the plugin touches the store directory; under    *)
(* SpecStore files are also put there and taken away from outside.         *)
(***************************************************************************)
EXTENDS Integers, Sequences, FiniteSets, Bags, TLC

\* ---------------------------------------------------------------- bounds
\* The clock advances at most MaxTicks times.
MaxTicks == 2
\* At most MaxPending handlers are suspended in an image download at once.
MaxPending == 1
\* A message carries at most MaxSegs segments.
MaxSegs == 2

\* ------------------------------------------------------ program constants
\* Length of a hex MD5 digest (hashlib.md5(b).hexdigest()).
DigestLen == 32
\* Seconds a session stays armed.
TTL == 60

\* --------------------------------------------------------------- strings
\* A string is the sequence of its character codes (ASCII): "a" is 97,
\* "A" is 65, "0" is 48, "." is 46 and " " is 32.

\* str.upper() and str.lower() on one character
UpperChar(c) == IF c \in 97..122 THEN c - 32 ELSE c

LowerChar(c) == IF c \in 65..90 THEN c + 32 ELSE c

\* str.upper()
Upper(s) == [i \in 1..Len(s) |-> UpperChar(s[i])]

\* str.lower()
Lower(s) == [i \in 1..Len(s) |-> LowerChar(s[i])]

\* str.strip(): leading and trailing blanks removed
\* the characters str.strip() removes from both ends of an ASCII text
Whitespace == (9..13) \cup (28..32)

RECURSIVE StripLeft(_)
StripLeft(s) ==
  IF s # <<>> /\ s[1] \in Whitespace THEN StripLeft(Tail(s)) ELSE s

RECURSIVE StripRight(_)
StripRight(s) ==
  IF s # <<>> /\ s[Len(s)] \in Whitespace THEN StripRight(SubSeq(s, 1, Len(s) - 1)) ELSE s

Strip(s) == StripRight(StripLeft(s))

\* the characters _resolve_key accepts in a key
HexChars == (48..57) \cup (97..102) \cup (65..70)

\* str.rfind("."), 1-based, 0 when there is no dot
RFindDot(s) ==
  LET dots == {i \in 1..Len(s) : s[i] = 46}
  IN IF dots = {} THEN 0 ELSE CHOOSE i \in dots : \A j \in dots : j <= i

\* pathlib's PurePath.suffix of a bare file name
PathSuffix(name) ==
  LET i == RFindDot(name)
  IN IF 1 < i /\ i < Len(name) THEN SubSeq(name, i, Len(name)) ELSE <<>>

\* pathlib's PurePath.stem of a bare file name
PathStem(name) ==
  LET i == RFindDot(name)
  IN IF 1 < i /\ i < Len(name) THEN SubSeq(name, 1, i - 1) ELSE name

\* s repeated to fill n characters
Fill(s, n) == [i \in 1..n |-> s[((i - 1) % Len(s)) + 1]]

\* ---------------------------------------------------------------- blobs
\* The byte sequences the environment supplies.
Blobs == {"B1", "B2"}

\* hashlib.md5(b).hexdigest(): lower-case hex, one value per blob
HexDigest(b) ==
  IF b = "B1" THEN Fill(<<97, 49>>, DigestLen) ELSE Fill(<<101, 55>>, DigestLen)

\* md5_bytes_upper, tabulated over the blobs
Md5Upper == [b \in Blobs |-> Upper(HexDigest(b))]

md5_bytes_upper(b) == Md5Upper[b]

K1 == md5_bytes_upper("B1")
K2 == md5_bytes_upper("B2")
\* a well-formed digest that no blob considered has
K9 == Fill(<<57, 70>>, DigestLen)

ExtPng == <<46, 112, 110, 103>>
ExtJpg == <<46, 106, 112, 103>>

\* Python's None: a value that is no string (-1 is no character code)
None == <<-1>>

\* ----------------------------------------------------------------- dicts
EmptyDict == <<>>

\* d[k] = v
Put(d, k, v) == [x \in (DOMAIN d) \cup {k} |-> IF x = k THEN v ELSE d[x]]

\* for k in ks: d.pop(k, None)
Drop(d, ks) == [x \in (DOMAIN d) \ ks |-> d[x]]

\* d.get(k)
Get(d, k) == IF k \in DOMAIN d THEN d[k] ELSE None

\* ------------------------------------------------------------ environment
\* Files outside the plugin's directory that an image segment's path may
\* name, with the bytes each holds.  A path not listed does not exist.
PathLocal == <<109, 46, 80, 78, 71>>
PathGone == <<103, 46, 112, 110, 103>>

LocalFiles == [p \in {PathLocal} |-> "B1"]

\* Message segments.  An image segment carries an optional local path, an
\* optional url and a file identifier (each empty when absent).
Plain == [type |-> "Plain"]

Image(path, url, file) ==
  [type |-> "Image", path |-> path, url |-> url, file |-> file]

\* a readable local file; its identifier names another stored key
ImgLocal == Image(PathLocal, <<>>, K2)
\* a path that is gone and a url; its identifier is a key in lower case
ImgUrl == Image(PathGone, <<117>>, Lower(K1) \o ExtJpg)
\* neither path nor url; its identifier's stem is an alias text
ImgNone == Image(<<>>, <<>>, <<120, 46, 112, 110, 103>>)

Images == {ImgLocal, ImgUrl, ImgNone}

Segments == Images \cup {Plain}

\* message_obj.message of a group message
Messages == UNION {[1..n -> Segments] : n \in 0..MaxSegs}

\* message_obj.message of a "/meme add" command: the text, then at most
\* one image
CmdMessages == {<<Plain>>} \cup {<<Plain, i>> : i \in Images}

Groups == {"g1"}
Users == {"u1", "u2"}
Pairs == Groups \X Users

\* what sess.get(url) and resp.read() can give: a response with its status
\* and body, or an exception (a timeout is one)
FetchOutcomes ==
  {[raised |-> FALSE, status |-> 200, data |-> b] : b \in Blobs}
    \cup {[raised |-> FALSE, status |-> 404, data |-> "B1"],
          [raised |-> TRUE, status |-> 0, data |-> "B1"]}

\* the alias texts, key tokens and queries the commands are given
AliasX == <<120>>
AliasUpperX == <<88>>
AliasHex == HexDigest("B1")

Aliases == {AliasX, AliasUpperX, AliasHex}

KeyTokens == {Lower(K1), K2, K9}

Queries == Aliases \cup {K1, Lower(K2), K9}

\* the fewer alias texts and queries given while sessions are followed too
FewAliases == {AliasUpperX}

FewQueries == FewAliases \cup {K1, Lower(K2)}

\* ----------------------------------------------------------------- state
VARIABLES
  index,       \* self.index: key -> file name
  alias,       \* self.alias: alias -> key
  awaiting,    \* self.awaiting: (group_id, user_id) -> expiry
  files,       \* the names of the files in self.meme_dir
  index_json,  \* index.json: whether the file exists, and the mapping in it
  alias_json,  \* alias.json: whether the file exists, and the mapping in it
  now,         \* time.time()
  pending      \* the handlers suspended in sess.get(url), a bag

vars == <<index, alias, awaiting, files, index_json, alias_json, now, pending>>

\* a JSON document on disk
NoFile == [exists |-> FALSE, data |-> EmptyDict]
FileOf(d) == [exists |-> TRUE, data |-> d]

\* the None that _extract_first_image returns
NoImage == [type |-> "None"]

\* ------------------------------------------------------------- helpers
\* _extract_first_image: the first Image segment of the message, or None
_extract_first_image(msg) ==
  LET imgs == {i \in 1..Len(msg) : msg[i].type = "Image"}
  IN IF imgs = {} THEN NoImage
     ELSE msg[CHOOSE i \in imgs : \A j \in imgs : i <= j]

\* _resolve_key as it would be if the alias table were asked first
resolve_alias_first(key_or_alias) ==
  LET s == Strip(key_or_alias)
  IN IF s \in DOMAIN alias THEN alias[s]
     ELSE IF Len(s) = DigestLen /\ \A i \in 1..Len(s) : s[i] \in HexChars
     THEN Upper(s)
     ELSE None

\* _resolve_key: a 32-character hex text is its own key, upper-cased;
\* anything else is looked up in the alias table
_resolve_key(key_or_alias) ==
  LET s == Strip(key_or_alias)
  IN IF Len(s) = DigestLen /\ \A i \in 1..Len(s) : s[i] \in HexChars
     THEN Upper(s)
     ELSE Get(alias, s)

\* the extension _save_bytes_as_meme gives the file
NormalizeExt(ext) ==
  LET e == Lower(IF ext = <<>> THEN ExtPng ELSE ext)
  IN IF e[1] = 46 THEN e ELSE <<46>> \o e

\* the file name _save_bytes_as_meme builds
MemeFileName(data, ext) == md5_bytes_upper(data) \o NormalizeExt(ext)

\* _save_index
_save_index == index_json' = FileOf(index')

\* _save_alias
_save_alias == alias_json' = FileOf(alias')

\* _save_bytes_as_meme as it would be with the test of line 120 inverted:
\* the file is written only where one exists already
save_bytes_without_write(data, ext) ==
  /\ files' = files
  /\ index' = Put(index, md5_bytes_upper(data), MemeFileName(data, ext))
  /\ _save_index

\* _save_bytes_as_meme: the file is written unless one of that name exists,
\* the index entry is set and the index saved; the key returned is
\* md5_bytes_upper(data)
_save_bytes_as_meme(data, ext) ==
  /\ files' = files \cup {MemeFileName(data, ext)}
  /\ index' = Put(index, md5_bytes_upper(data), MemeFileName(data, ext))
  /\ _save_index

\* _delete_key as it would be without lines 143-148: the aliases of the
\* deleted key stay
delete_key_keeps_aliases(key) ==
  LET k == Upper(key)
  IN IF k \notin DOMAIN index
     THEN UNCHANGED <<files, index, index_json, alias, alias_json>>
     ELSE /\ files' = files \ {index[k]}
          /\ index' = Drop(index, {k})
          /\ _save_index
          /\ UNCHANGED <<alias, alias_json>>

\* _delete_key as it would be if it dropped one alias of the key (what
\* _reverse_alias finds) and not all of them
delete_key_one_alias(key) ==
  LET k == Upper(key)
      bad == {a \in DOMAIN alias : alias[a] = k}
  IN IF k \notin DOMAIN index
     THEN UNCHANGED <<files, index, index_json, alias, alias_json>>
     ELSE /\ files' = files \ {index[k]}
          /\ index' = Drop(index, {k})
          /\ _save_index
          /\ alias' = IF bad = {} THEN alias
                      ELSE Drop(alias, {CHOOSE a \in bad : TRUE})
          /\ IF bad # {} THEN _save_alias ELSE UNCHANGED alias_json

\* _delete_key: nothing for a key the index lacks; otherwise the file the
\* index names is unlinked, the entry removed and the index saved, then
\* every alias of the key is removed and the alias table saved if there
\* was one
_delete_key(key) ==
  LET k == Upper(key)
      bad == {a \in DOMAIN alias : alias[a] = k}
  IN IF k \notin DOMAIN index
     THEN UNCHANGED <<files, index, index_json, alias, alias_json>>
     ELSE /\ files' = files \ {index[k]}
          /\ index' = Drop(index, {k})
          /\ _save_index
          /\ alias' = Drop(alias, bad)
          /\ IF bad # {} THEN _save_alias ELSE UNCHANGED alias_json

\* every order of the set S, as a sequence
RECURSIVE Orders(_)
Orders(S) ==
  IF S = {} THEN {<<>>}
  ELSE UNION {{<<f>> \o o : o \in Orders(S \ {f})} : f \in S}

\* the orders in which meme_dir.glob("*") may yield the directory's files
ScanOrders == Orders(files)

\* the file names the store directory is ever given: those that
\* _save_bytes_as_meme builds and those put there from outside
StoreNames ==
  {k \o e : k \in {K1, K2, Lower(K2)}, e \in {ExtPng, ExtJpg}}
    \cup {<<120, 46, 112, 110, 103>>}

\* "p.stem.upper()" of each of them
StemUpper == [p \in StoreNames |-> Upper(PathStem(p))]

\* the loop of _rebuild_index over the files in the order given
RECURSIVE ScanInto(_, _)
ScanInto(idx, order) ==
  IF order = <<>> THEN idx
  ELSE LET p == Head(order)
           stem == StemUpper[p]
       IN ScanInto(IF Len(stem) = DigestLen THEN Put(idx, stem, p) ELSE idx,
                   Tail(order))

\* _rebuild_index
_rebuild_index(order) ==
  /\ index' = ScanInto(EmptyDict, order)
  /\ _save_index

\* ------------------------------------------------------------- replies
\* What a handler yields to the chat, reduced to its kind and the values
\* it carries.  A reply is an output and no part of the state: each
\* handler's reply is an operator over the state the handler starts in.
Added(key) == [kind |-> "added", key |-> key]
AddFailed(err) == [kind |-> "add_failed", err |-> err]
Armed == [kind |-> "armed"]
KeyNotFound(key) == [kind |-> "key_not_found", key |-> key]
Named(a, key) == [kind |-> "named", alias |-> a, key |-> key]
NotFound == [kind |-> "not_found"]
Shown(key, name) == [kind |-> "show", key |-> key, name |-> name]
ListEmpty == [kind |-> "list_empty"]
Listed(keys) == [kind |-> "list", keys |-> keys]
Deleted(key) == [kind |-> "deleted", key |-> key]
DeleteFailed == [kind |-> "delete_failed"]
Reloaded(n, pruned) == [kind |-> "reloaded", count |-> n, pruned |-> pruned]
Repost(name) == [kind |-> "repost", name |-> name]
NoReply == [kind |-> "none"]

\* ------------------------------------------------------ download / add
\* _add_from_image_segment up to its first suspension: what it does with
\* the segment
AddPlan(img) ==
  IF img.path # <<>> /\ img.path \in DOMAIN LocalFiles
  THEN [do |-> "save", data |-> LocalFiles[img.path],
        ext |-> IF PathSuffix(img.path) = <<>> THEN ExtPng
                ELSE PathSuffix(img.path)]
  ELSE IF img.url = <<>>
  THEN [do |-> "fail", err |-> "no url/path"]
  ELSE [do |-> "fetch"]

\* the handling of the response as it would be without the status check of
\* lines 326-327
FetchPlan_any_status(img, outcome) ==
  IF outcome.raised
  THEN [do |-> "fail", err |-> "exception"]
  ELSE [do |-> "save", data |-> outcome.data,
        ext |-> IF PathSuffix(img.file) = <<>> THEN ExtPng
                ELSE PathSuffix(img.file)]

\* _add_from_image_segment after the download: what it does with the
\* response
FetchPlan(img, outcome) ==
  IF outcome.raised
  THEN [do |-> "fail", err |-> "exception"]
  ELSE IF outcome.status # 200
  THEN [do |-> "fail", err |-> "http"]
  ELSE [do |-> "save", data |-> outcome.data,
        ext |-> IF PathSuffix(img.file) = <<>> THEN ExtPng
                ELSE PathSuffix(img.file)]

\* the end of _add_from_image_segment
Ingest(plan) ==
  IF plan.do = "save"
  THEN _save_bytes_as_meme(plan.data, plan.ext)
  ELSE UNCHANGED <<files, index, index_json>>

\* the caller's reply to (ok, key_or_err)
IngestReply(plan) ==
  IF plan.do = "save" THEN Added(md5_bytes_upper(plan.data))
  ELSE AddFailed(plan.err)

\* a handler suspended in its download, with the locals it holds: meme_cmd
\* has not computed gu on this path, on_group_message has, and the expiry
\* exp it read from the session table
NoPair == <<"", "">>
\* the value of the local exp of a handler that has none
NoExp == 0
Task(handler, gu, exp, img) ==
  [handler |-> handler, gu |-> gu, exp |-> exp, img |-> img]

Suspend(task) ==
  /\ BagCardinality(pending) < MaxPending
  /\ pending' = pending (+) SetToBag({task})

\* ------------------------------------------------------------- sessions
\* the test of line 265 as it would be without the comparison of times
session_ignores_expiry(gu) == gu \in DOMAIN awaiting

\* "exp and time.time() <= exp"
SessionArmed(gu) == gu \in DOMAIN awaiting /\ now <= awaiting[gu]

\* "exp and time.time() > exp"
SessionStale(gu) == gu \in DOMAIN awaiting /\ now > awaiting[gu]

\* the repost loop as it would be if a stem that is no key were looked up
\* in the alias table
MatchAndFetch_via_alias(msg) ==
  LET key(i) == LET k == Upper(PathStem(msg[i].file))
                IN IF k \in DOMAIN index THEN k ELSE Get(alias, k)
      hits == {i \in 1..Len(msg) :
                 /\ msg[i].type = "Image"
                 /\ key(i) \in DOMAIN index
                 /\ index[key(i)] \in files}
  IN IF hits = {} THEN None
     ELSE index[key(CHOOSE i \in hits : \A j \in hits : i <= j)]

\* the repost loop of on_group_message: the stored name of the first image
\* segment whose file identifier's stem, upper-cased, is a key of the index
\* with its file present; None when there is none
MatchAndFetch(msg) ==
  LET key(i) == Upper(PathStem(msg[i].file))
      hits == {i \in 1..Len(msg) :
                 /\ msg[i].type = "Image"
                 /\ key(i) \in DOMAIN index
                 /\ index[key(i)] \in files}
  IN IF hits = {} THEN None
     ELSE index[key(CHOOSE i \in hits : \A j \in hits : i <= j)]

\* the aliases "/meme reload" would remove if line 241 ran before line 240
OrphanAliases_stale_index(idx) ==
  {a \in DOMAIN alias : alias[a] \notin DOMAIN index}

\* the aliases "/meme reload" removes, given the rebuilt index
OrphanAliases(idx) == {a \in DOMAIN alias : alias[a] \notin DOMAIN idx}

\* ----------------------------------------------------------------- Init
\* The state initialize() leaves on an empty data directory: the load finds
\* no index.json, the rebuild scans the empty store and saves the empty
\* index, and there is no alias.json.
Init ==
  /\ index = EmptyDict
  /\ alias = EmptyDict
  /\ awaiting = EmptyDict
  /\ files = {}
  /\ index_json = FileOf(EmptyDict)
  /\ alias_json = NoFile
  /\ now = 0
  /\ pending = EmptyBag

\* ------------------------------------------------------------- commands
\* "/meme add" as it would be if line 171 ran before the test of line 160
meme_add_always_arms(gu, msg) ==
  LET img == _extract_first_image(msg)
  IN /\ awaiting' = Put(awaiting, gu, now + TTL)
     /\ IF img.type # "Image"
        THEN UNCHANGED <<files, index, index_json, pending>>
        ELSE IF AddPlan(img).do = "fetch"
        THEN /\ Suspend(Task("meme_cmd", NoPair, NoExp, img))
             /\ UNCHANGED <<files, index, index_json>>
        ELSE /\ Ingest(AddPlan(img))
             /\ UNCHANGED pending
     /\ UNCHANGED <<alias, alias_json, now>>

\* "/meme add": with an image, ingest it; without, arm the sender's session
meme_add(gu, msg) ==
  LET img == _extract_first_image(msg)
  IN IF img.type = "Image"
     THEN /\ IF AddPlan(img).do = "fetch"
             THEN /\ Suspend(Task("meme_cmd", NoPair, NoExp, img))
                  /\ UNCHANGED <<files, index, index_json>>
             ELSE /\ Ingest(AddPlan(img))
                  /\ UNCHANGED pending
          /\ UNCHANGED <<alias, alias_json, awaiting, now>>
     ELSE /\ awaiting' = Put(awaiting, gu, now + TTL)
          /\ UNCHANGED <<index, alias, files, index_json, alias_json, now, pending>>

meme_add_reply(gu, msg) ==
  LET img == _extract_first_image(msg)
  IN IF img.type # "Image" THEN Armed
     ELSE IF AddPlan(img).do = "fetch" THEN NoReply
     ELSE IngestReply(AddPlan(img))

\* "/meme name" as it would be without the check of lines 182-184
meme_name_unchecked(key_token, alias_text) ==
  /\ alias' = Put(alias, Strip(alias_text), Upper(Strip(key_token)))
  /\ _save_alias
  /\ UNCHANGED <<index, awaiting, files, index_json, now, pending>>

\* "/meme name" as it would be if line 186 kept an alias already bound
meme_name_first_wins(key_token, alias_text) ==
  LET key == Upper(Strip(key_token))
      a == Strip(alias_text)
  IN IF key \notin DOMAIN index \/ a \in DOMAIN alias
     THEN UNCHANGED vars
     ELSE /\ alias' = Put(alias, a, key)
          /\ _save_alias
          /\ UNCHANGED <<index, awaiting, files, index_json, now, pending>>

\* "/meme name <KEY> <alias>"
meme_name(key_token, alias_text) ==
  LET key == Upper(Strip(key_token))
      a == Strip(alias_text)
  IN IF key \notin DOMAIN index
     THEN UNCHANGED vars
     ELSE /\ alias' = Put(alias, a, key)
          /\ _save_alias
          /\ UNCHANGED <<index, awaiting, files, index_json, now, pending>>

meme_name_reply(key_token, alias_text) ==
  LET key == Upper(Strip(key_token))
  IN IF key \notin DOMAIN index THEN KeyNotFound(key)
     ELSE Named(Strip(alias_text), key)

\* "/meme show <KEY|alias>"
meme_show(q) == UNCHANGED vars

meme_show_reply(q) ==
  LET key == _resolve_key(q)
  IN IF key = None THEN NotFound
     ELSE Shown(key, IF key \in DOMAIN index THEN index[key] ELSE <<>>)

\* "/meme list"
meme_list == UNCHANGED vars

meme_list_reply ==
  IF DOMAIN index = {} THEN ListEmpty ELSE Listed(DOMAIN index)

\* "/meme del <KEY|alias>"
meme_del(q) ==
  LET key == _resolve_key(q)
  IN IF key = None
     THEN UNCHANGED vars
     ELSE /\ _delete_key(key)
          /\ UNCHANGED <<awaiting, now, pending>>

meme_del_reply(q) ==
  LET key == _resolve_key(q)
  IN IF key = None THEN NotFound
     ELSE IF Upper(key) \in DOMAIN index THEN Deleted(key)
     ELSE DeleteFailed

\* "/meme reload"
meme_reload(order) ==
  /\ _rebuild_index(order)
  /\ alias' = Drop(alias, OrphanAliases(index'))
  /\ IF OrphanAliases(index') # {} THEN _save_alias ELSE UNCHANGED alias_json
  /\ UNCHANGED <<awaiting, files, now, pending>>

meme_reload_reply(order) ==
  LET idx == ScanInto(EmptyDict, order)
  IN Reloaded(Cardinality(DOMAIN idx), Cardinality(OrphanAliases(idx)))

\* ------------------------------------------------- group message handler
on_group_message(gu, msg) ==
  LET img == _extract_first_image(msg)
  IN IF SessionArmed(gu) /\ img.type = "Image"
     THEN /\ IF AddPlan(img).do = "fetch"
             THEN /\ Suspend(Task("on_group_message", gu, awaiting[gu], img))
                  /\ UNCHANGED <<files, index, index_json, awaiting>>
             ELSE /\ Ingest(AddPlan(img))
                  /\ awaiting' = Drop(awaiting, {gu})
                  /\ UNCHANGED pending
          /\ UNCHANGED <<alias, alias_json, now>>
     ELSE /\ awaiting' = IF SessionStale(gu) THEN Drop(awaiting, {gu})
                         ELSE awaiting
          /\ UNCHANGED <<index, alias, files, index_json, alias_json, now,
                         pending>>

\* the handler's reply as it would be if the repost loop of lines 281-298
\* ran before the session test of line 265
on_group_message_reply_repost_first(gu, msg) ==
  LET img == _extract_first_image(msg)
  IN IF MatchAndFetch(msg) # None THEN Repost(MatchAndFetch(msg))
     ELSE IF SessionArmed(gu) /\ img.type = "Image"
     THEN IF AddPlan(img).do = "fetch" THEN NoReply
          ELSE IngestReply(AddPlan(img))
     ELSE NoReply

on_group_message_reply(gu, msg) ==
  LET img == _extract_first_image(msg)
  IN IF SessionArmed(gu) /\ img.type = "Image"
     THEN IF AddPlan(img).do = "fetch" THEN NoReply
          ELSE IngestReply(AddPlan(img))
     ELSE IF MatchAndFetch(msg) = None THEN NoReply
     ELSE Repost(MatchAndFetch(msg))

\* the return of a download as it would be if line 269 ran on success only
FetchReturns_pop_on_success(task, outcome) ==
  /\ BagIn(task, pending)
  /\ pending' = pending (-) SetToBag({task})
  /\ Ingest(FetchPlan(task.img, outcome))
  /\ awaiting' = IF task.handler = "on_group_message"
                      /\ FetchPlan(task.img, outcome).do = "save"
                 THEN Drop(awaiting, {task.gu})
                 ELSE awaiting
  /\ UNCHANGED <<alias, alias_json, now>>

\* The download of a suspended handler returns: _add_from_image_segment
\* finishes, and the handler with it.
FetchReturns(task, outcome) ==
  /\ BagIn(task, pending)
  /\ pending' = pending (-) SetToBag({task})
  /\ Ingest(FetchPlan(task.img, outcome))
  /\ awaiting' = IF task.handler = "on_group_message"
                 THEN Drop(awaiting, {task.gu})
                 ELSE awaiting
  /\ UNCHANGED <<alias, alias_json, now>>

FetchReturns_reply(task, outcome) == IngestReply(FetchPlan(task.img, outcome))

\* time passes
Tick ==
  /\ now < MaxTicks * TTL
  /\ now' = now + TTL
  /\ UNCHANGED <<index, alias, awaiting, files, index_json, alias_json, pending>>

Next ==
  \/ \E gu \in Pairs, msg \in CmdMessages : meme_add(gu, msg)
  \/ \E k \in KeyTokens, a \in FewAliases : meme_name(k, a)
  \/ \E q \in FewQueries : meme_show(q)
  \/ meme_list
  \/ \E q \in FewQueries : meme_del(q)
  \/ \E o \in ScanOrders : meme_reload(o)
  \/ \E gu \in Pairs, msg \in Messages : on_group_message(gu, msg)
  \/ \E t \in BagToSet(pending), o \in FetchOutcomes : FetchReturns(t, o)
  \/ Tick

Spec == Init /\ [][Next]_vars

\* ------------------------------------------- the store seen from outside
\* The registry under its commands alone (no sessions, no clock), with the
\* store directory also changed from outside the plugin: a file is put
\* there or taken away, which is what "/meme reload" exists for.
OutsideNames ==
  {K1 \o ExtPng, K1 \o ExtJpg, K2 \o ExtJpg, Lower(K2) \o ExtPng,
   <<120, 46, 112, 110, 103>>}

StorePlace(f) ==
  /\ f \notin files
  /\ files' = files \cup {f}
  /\ UNCHANGED <<index, alias, awaiting, index_json, alias_json, now, pending>>

StoreTake(f) ==
  /\ f \in files
  /\ files' = files \ {f}
  /\ UNCHANGED <<index, alias, awaiting, index_json, alias_json, now, pending>>

NextStore ==
  \/ \E gu \in Pairs, i \in Images : meme_add(gu, <<Plain, i>>)
  \/ \E k \in KeyTokens, a \in Aliases : meme_name(k, a)
  \/ \E q \in Queries : meme_show(q)
  \/ meme_list
  \/ \E q \in Queries : meme_del(q)
  \/ \E o \in ScanOrders : meme_reload(o)
  \/ \E t \in BagToSet(pending), o \in FetchOutcomes : FetchReturns(t, o)
  \/ \E f \in OutsideNames : StorePlace(f)
  \/ \E f \in OutsideNames : StoreTake(f)

SpecStore == Init /\ [][NextStore]_vars

\* ------------------------------------------ reposts from a changing store
\* The handlers with files also taken out of the store directory from
\* outside (or left in the index by an unlink that did not happen): adds,
\* binds, sessions, group messages and the clock.
NextRepost ==
  \/ \E gu \in Pairs, msg \in CmdMessages : meme_add(gu, msg)
  \/ \E k \in KeyTokens, a \in FewAliases : meme_name(k, a)
  \/ \E gu \in Pairs, msg \in Messages : on_group_message(gu, msg)
  \/ \E t \in BagToSet(pending), o \in FetchOutcomes : FetchReturns(t, o)
  \/ \E f \in files : StoreTake(f)
  \/ Tick

SpecRepost == Init /\ [][NextRepost]_vars

\* --------------------------------------------------------------- startup
\* "{str(k).upper(): str(v) ...}" of _load_index
UpperKeys(d) ==
  [k \in {Upper(x) : x \in DOMAIN d} |->
     d[CHOOSE x \in DOMAIN d : Upper(x) = k]]

\* "{str(a).strip(): str(k).upper() ...}" of _load_alias
StripKeysUpperValues(d) ==
  [a \in {Strip(x) : x \in DOMAIN d} |->
     Upper(d[CHOOSE x \in DOMAIN d : Strip(x) = a])]

\* _load_index on the empty index initialize() made: the content of
\* index.json when the file exists and parses, nothing otherwise
_load_index(parses) ==
  IF index_json.exists /\ parses THEN UpperKeys(index_json.data)
  ELSE EmptyDict

\* _load_alias, likewise
_load_alias(parses) ==
  IF alias_json.exists /\ parses THEN StripKeysUpperValues(alias_json.data)
  ELSE EmptyDict

\* _load_or_rebuild: the index is loaded, rebuilt by a scan when the load
\* gave none, and the alias table is loaded as it is on disk
_load_or_rebuild(index_parses, alias_parses, order) ==
  /\ IF _load_index(index_parses) = EmptyDict
     THEN _rebuild_index(order)
     ELSE index' = _load_index(index_parses) /\ UNCHANGED index_json
  /\ alias' = _load_alias(alias_parses)
  /\ UNCHANGED alias_json

\* initialize(): the process starts on the data directory as it is found;
\* sessions and suspended handlers of an earlier process are gone
initialize(index_parses, alias_parses, order) ==
  /\ _load_or_rebuild(index_parses, alias_parses, order)
  /\ awaiting' = EmptyDict
  /\ pending' = EmptyBag
  /\ UNCHANGED <<files, now>>

\* the data directories a start may find
StartFiles == {K1 \o ExtPng, Lower(K2) \o ExtPng, <<120, 46, 112, 110, 103>>}

StartIndexes ==
  {EmptyDict,
   Put(EmptyDict, K1, K1 \o ExtPng),
   Put(EmptyDict, Lower(K1), K1 \o ExtPng),
   Put(Put(EmptyDict, K1, K1 \o ExtPng), K2, K2 \o ExtJpg)}

StartAliases ==
  {EmptyDict,
   Put(EmptyDict, AliasX, K1),
   Put(EmptyDict, <<32>> \o AliasX, Lower(K1)),
   Put(Put(EmptyDict, AliasX, K1), AliasUpperX, K2)}

\* a process not yet started, on any such directory
InitStart ==
  /\ index = EmptyDict
  /\ alias = EmptyDict
  /\ awaiting = EmptyDict
  /\ files \in SUBSET StartFiles
  /\ index_json \in {NoFile} \cup {FileOf(d) : d \in StartIndexes}
  /\ alias_json \in {NoFile} \cup {FileOf(d) : d \in StartAliases}
  /\ now = 0
  /\ pending = EmptyBag

NextStart ==
  \E index_parses, alias_parses \in BOOLEAN, order \in ScanOrders :
    initialize(index_parses, alias_parses, order)

SpecStart == InitStart /\ [][NextStart]_vars

\* ================================================================ claims
\* a text of DigestLen hexadecimal characters
IsDigestText(s) == Len(s) = DigestLen /\ {s[i] : i \in 1..Len(s)} \subseteq HexChars

\* C1: from the empty registry, after any sequence of adds, binds, deletes
\* and reloads, every alias maps to a key the index holds.
C1_AliasesLive == \A a \in DOMAIN alias : alias[a] \in DOMAIN index

\* C1's case: aliases are bound, and a key that had two stored files has
\* been deleted (one of its files is left behind).
C1_Witness ==
  /\ DOMAIN alias # {}
  /\ K1 \notin DOMAIN index
  /\ (K1 \o ExtPng) \in files

\* C2, as amended: a delete whose query resolves to a key D of the index
\* removes D's entry and the file it names, removes every alias of D, so
\* that a show of any such alias that is not itself a digest text answers
\* not-found, and leaves every other alias and index entry as it was.
C2_DeleteEffect(showAll) ==
  \A q \in Queries :
    LET D == _resolve_key(q)
    IN (D # None /\ D \in DOMAIN index /\ meme_del(q)) =>
         /\ D \notin DOMAIN index'
         /\ index[D] \notin files'
         /\ meme_del_reply(q) = Deleted(D)
         /\ \A a \in DOMAIN alias :
              IF alias[a] = D
              THEN /\ a \notin DOMAIN alias'
                   /\ (showAll \/ ~IsDigestText(a)) => (meme_show_reply(a))' = NotFound
              ELSE a \in DOMAIN alias' /\ alias'[a] = alias[a]
         /\ DOMAIN alias' \subseteq DOMAIN alias
         /\ \A k \in DOMAIN index \ {D} : k \in DOMAIN index' /\ index'[k] = index[k]
         /\ DOMAIN index' \subseteq DOMAIN index

C3_BindUnknownKey ==
  [][vars' = vars \/
       \A k \in KeyTokens :
         LET key == Upper(Strip(k))
         IN key \notin DOMAIN index =>
              \A a \in Aliases :
                /\ meme_name_reply(k, a) = KeyNotFound(key)
                /\ meme_name(k, a) =>
                     UNCHANGED <<alias, alias_json, index, index_json, awaiting>>]_vars

\* C3's case: aliases and a session exist, and a key token names no entry.
C3_Witness ==
  /\ DOMAIN alias # {}
  /\ DOMAIN awaiting # {}
  /\ K2 \notin DOMAIN index

\* the kinds of reply a capture ends with
CaptureKinds == {"added", "add_failed"}

\* in the current state no image event of the pair can be captured: the
\* handler neither stores anything nor starts a download for it
NoCapture(gu) ==
  \A msg \in Messages :
    ~ENABLED (on_group_message(gu, msg)
                /\ <<index, files, pending>>' # <<index, files, pending>>)

\* C4: an image event of a pair whose session is armed and not expired
\* attempts an ingest; when the handling of the event completes, at once or
\* after its download, the pair's session entry is gone whether the ingest
\* succeeded or failed; and a pair without a session entry has no image
\* event captured.
C4_CaptureConsumesSession ==
  [][/\ \A gu \in Pairs : gu \notin DOMAIN awaiting => NoCapture(gu)
     /\ \/ vars' = vars
        \/ /\ \A gu \in Pairs :
                (gu \in DOMAIN awaiting /\ now <= awaiting[gu]) =>
                  \A msg \in Messages :
                    LET img == _extract_first_image(msg)
                    IN (img.type = "Image" /\ on_group_message(gu, msg)) =>
                         \/ /\ on_group_message_reply(gu, msg).kind \in CaptureKinds
                            /\ gu \notin DOMAIN awaiting'
                            /\ pending' = pending
                         \/ /\ pending' = pending (+)
                                 SetToBag({Task("on_group_message", gu, awaiting[gu], img)})
                            /\ UNCHANGED <<index, files>>
           /\ \A t \in BagToSet(pending) :
                t.handler = "on_group_message" =>
                  \A o \in FetchOutcomes :
                    FetchReturns(t, o) =>
                      /\ FetchReturns_reply(t, o).kind \in CaptureKinds
                      /\ t.gu \notin DOMAIN awaiting']_vars

\* C4's case: a capture is suspended in its download while its pair's
\* session is still armed and the index is not empty.
C4_Witness ==
  /\ DOMAIN index # {}
  /\ \E t \in BagToSet(pending) :
       /\ t.handler = "on_group_message"
       /\ t.gu \in DOMAIN awaiting /\ now <= awaiting[t.gu]

\* a message with an image segment in it
HasImage(msg) == \E i \in 1..Len(msg) : msg[i].type = "Image"

\* C5: a "/meme add" without an image sets the expiry to the time of the
\* command plus TTL, and once the clock is past the expiry the pair's next
\* image event is a repost lookup and no capture: nothing is ingested, no
\* download starts, the index is unchanged, the reply is that of the
\* lookup and the stale session entry is removed.
C5_StaleSessionIsRepost ==
  [][vars' = vars \/
       \A gu \in Pairs :
         /\ meme_add(gu, <<Plain>>) =>
              gu \in DOMAIN awaiting' /\ awaiting'[gu] = now + TTL
         /\ (gu \in DOMAIN awaiting /\ now > awaiting[gu]) =>
              \A msg \in Messages :
                (HasImage(msg) /\ on_group_message(gu, msg)) =>
                  /\ UNCHANGED <<index, index_json, files, pending>>
                  /\ gu \notin DOMAIN awaiting'
                  /\ on_group_message_reply(gu, msg) =
                       IF MatchAndFetch(msg) = None THEN NoReply
                       ELSE Repost(MatchAndFetch(msg))]_vars

\* C5's case: a session is past its expiry while the index holds a key
\* that an image event names.
C5_Witness ==
  /\ K1 \in DOMAIN index
  /\ \E gu \in Pairs : gu \in DOMAIN awaiting /\ now > awaiting[gu]

\* an image segment that offers neither a readable local file nor a url
Unusable(img) ==
  /\ img.type = "Image"
  /\ img.path = <<>> \/ img.path \notin DOMAIN LocalFiles
  /\ img.url = <<>>

\* C6: an add that fails (the segment has no usable local path and no url,
\* the download answers with a status other than 200, or it raises) leaves
\* the index, the alias table, both persisted files and the store
\* unchanged and replies with the failure, whether "/meme add" with an
\* image or an armed capture started it.
C6_FailedAddChangesNothing ==
  [][vars' = vars \/
       /\ \A msg \in Messages \cup CmdMessages :
            Unusable(_extract_first_image(msg)) =>
              \A gu \in Pairs :
                /\ (msg \in CmdMessages /\ meme_add(gu, msg)) =>
                     /\ UNCHANGED <<index, alias, index_json, alias_json, files>>
                     /\ meme_add_reply(gu, msg).kind = "add_failed"
                /\ (msg \in Messages /\ gu \in DOMAIN awaiting
                      /\ now <= awaiting[gu] /\ on_group_message(gu, msg)) =>
                     /\ UNCHANGED <<index, alias, index_json, alias_json, files>>
                     /\ on_group_message_reply(gu, msg).kind = "add_failed"
       /\ \A t \in BagToSet(pending), o \in FetchOutcomes :
            ((o.raised \/ o.status # 200) /\ FetchReturns(t, o)) =>
              /\ UNCHANGED <<index, alias, index_json, alias_json, files>>
              /\ FetchReturns_reply(t, o).kind = "add_failed"]_vars

\* C6's case: a download is in flight while the index and the alias table
\* hold entries.
C6_Witness ==
  /\ DOMAIN index # {}
  /\ DOMAIN alias # {}
  /\ pending # EmptyBag

\* C7: ingesting bytes whose key the index already holds, with the file
\* it names in the store, gives that key again, writes no file and leaves
\* the index as the first ingest left it.
C7_ReingestIsNoOp ==
  [][vars' = vars \/
       /\ \A msg \in CmdMessages :
            LET img == _extract_first_image(msg)
            IN (img.type = "Image" /\ AddPlan(img).do = "save"
                  /\ md5_bytes_upper(AddPlan(img).data) \in DOMAIN index
                  /\ index[md5_bytes_upper(AddPlan(img).data)] \in files) =>
                 \A gu \in Pairs :
                   meme_add(gu, msg) =>
                     /\ meme_add_reply(gu, msg) = Added(md5_bytes_upper(AddPlan(img).data))
                     /\ UNCHANGED <<files, index>>
       /\ \A t \in BagToSet(pending), o \in FetchOutcomes :
            (~o.raised /\ o.status = 200
               /\ md5_bytes_upper(o.data) \in DOMAIN index
               /\ index[md5_bytes_upper(o.data)] \in files
               /\ FetchReturns(t, o)) =>
              /\ FetchReturns_reply(t, o) = Added(md5_bytes_upper(o.data))
              /\ UNCHANGED <<files, index>>]_vars

\* the texts resolve is asked about: the queries of the commands, the same
\* between blanks, a digest text one character short, and a text of
\* DigestLen characters that are not all hexadecimal
ResolveInputs ==
  Queries
    \cup {<<32>> \o q \o <<32, 9>> : q \in Queries}
    \cup {SubSeq(K1, 1, DigestLen - 1), Fill(<<103>>, DigestLen), <<>>}

\* C8: resolve of a query that, trimmed, is DigestLen hexadecimal
\* characters is the trimmed query in upper case, whatever the alias table
\* and the index hold; of any other query it is what the alias table holds
\* for the trimmed query, compared case-sensitively, or none.  So every
\* digest in the index resolves to itself.
C8_Resolve ==
  /\ \A q \in ResolveInputs :
       LET t == Strip(q)
       IN _resolve_key(q) =
            IF IsDigestText(t) THEN Upper(t)
            ELSE IF t \in DOMAIN alias THEN alias[t]
            ELSE None
  /\ \A D \in DOMAIN index : IsDigestText(D) => _resolve_key(D) = D

\* C8's case: an alias whose text is a digest is bound to another digest,
\* that text is no key of the index, and of two aliases that differ in case
\* only one is bound.
C8_Witness ==
  /\ AliasHex \in DOMAIN alias /\ alias[AliasHex] = K2
  /\ K1 \notin DOMAIN index
  /\ K2 \in DOMAIN index
  /\ AliasX \in DOMAIN alias
  /\ AliasUpperX \notin DOMAIN alias

\* an index that a scan of the store directory can give: every entry
\* names a stored file under the upper-cased stem of its name, and every
\* stored file with a stem of DigestLen characters has its entry
IsScanOf(idx, dir) ==
  /\ \A k \in DOMAIN idx :
       idx[k] \in dir /\ StemUpper[idx[k]] = k /\ Len(k) = DigestLen
  /\ \A f \in dir :
       Len(PathStem(f)) = DigestLen => StemUpper[f] \in DOMAIN idx

\* C9: "/meme reload" replaces the index by the result of a scan of the
\* store directory, removes exactly the aliases whose key the rebuilt
\* index lacks, keeps every other alias as it was, and reports the number
\* of entries of the rebuilt index and the number of aliases removed.
C9_ReloadReconciles ==
  [][vars' = vars \/ files' # files \/ pending' # pending \/
       /\ (\E o \in ScanOrders : meme_reload(o)) =>
            /\ IsScanOf(index', files)
            /\ DOMAIN alias' = {a \in DOMAIN alias : alias[a] \in DOMAIN index'}
            /\ \A a \in DOMAIN alias' : alias'[a] = alias[a]
       /\ LET report == Reloaded(Cardinality(DOMAIN index'),
                                 Cardinality(DOMAIN alias)
                                   - Cardinality(DOMAIN alias'))
          IN \A o \in ScanOrders :
               meme_reload(o) => meme_reload_reply(o) = report]_vars

\* C9's case: the files of one aliased key have been taken out of the
\* store while its entry is still in the index, and another aliased key
\* keeps its file.
C9_Witness ==
  /\ \E a \in DOMAIN alias :
       /\ alias[a] \in DOMAIN index
       /\ \A f \in files : Upper(PathStem(f)) # alias[a]
  /\ \E a \in DOMAIN alias :
       alias[a] \in DOMAIN index /\ index[alias[a]] \in files

\* C10: a rebuild that follows a rebuild of the same store directory gives
\* the index the first one gave: a "/meme reload" in a state whose index
\* is the result of a scan of the directory as it is leaves the index as
\* it was.
C10_RebuildTwice ==
  [][vars' = vars \/
       (\E o \in ScanOrders : index = ScanInto(EmptyDict, o)) =>
         \A o \in ScanOrders : meme_reload(o) => index' = index]_vars

\* the session entries of every pair but gu are what they were
OtherSessionsKept(gu) ==
  \A other \in Pairs \ {gu} :
    /\ other \in DOMAIN awaiting' <=> other \in DOMAIN awaiting
    /\ other \in DOMAIN awaiting => awaiting'[other] = awaiting[other]

\* C11: "/meme add" with an attached image ingests it and leaves every
\* session entry as it was, at once and when its download returns; without
\* an image it sets the sender's expiry to the time of the command plus
\* TTL and changes no other pair's session, nor the index, nor the alias
\* table.
C11_AddArmsOnlyWithoutImage ==
  [][vars' = vars \/
       /\ \A gu \in Pairs, msg \in CmdMessages :
            meme_add(gu, msg) =>
              IF HasImage(msg)
              THEN /\ awaiting' = awaiting
                   /\ \/ meme_add_reply(gu, msg).kind \in CaptureKinds
                      \/ pending' # pending
              ELSE /\ gu \in DOMAIN awaiting' /\ awaiting'[gu] = now + TTL
                   /\ OtherSessionsKept(gu)
                   /\ UNCHANGED <<index, alias, index_json, alias_json, files>>
                   /\ meme_add_reply(gu, msg) = Armed
       /\ \A t \in BagToSet(pending) :
            t.handler = "meme_cmd" =>
              \A o \in FetchOutcomes : FetchReturns(t, o) => awaiting' = awaiting]_vars

\* C11's case: the download of an add command is in flight while one pair
\* is armed and the other is not.
C11_Witness ==
  /\ \E t \in BagToSet(pending) : t.handler = "meme_cmd"
  /\ \E gu \in Pairs : gu \in DOMAIN awaiting /\ now <= awaiting[gu]
  /\ \E gu \in Pairs : gu \notin DOMAIN awaiting

\* C12: an image event of a pair whose session is armed and not expired
\* is answered with the result of the capture, at once or when its
\* download returns, and never with a repost, even when an image of the
\* event names a key of the index whose file is stored; an event that is
\* not captured is answered with a repost or not at all.  No event gets
\* both answers.
C12_CaptureExcludesRepost ==
  /\ \A gu \in Pairs, msg \in Messages :
       LET r == on_group_message_reply(gu, msg)
           img == _extract_first_image(msg)
       IN IF HasImage(msg) /\ gu \in DOMAIN awaiting /\ now <= awaiting[gu]
          THEN IF AddPlan(img).do = "fetch" THEN r = NoReply
               ELSE r.kind \in CaptureKinds
          ELSE r = IF MatchAndFetch(msg) = None THEN NoReply
                   ELSE Repost(MatchAndFetch(msg))
  /\ \A t \in BagToSet(pending), o \in FetchOutcomes :
       FetchReturns_reply(t, o).kind \in CaptureKinds

\* C12's case: a pair is armed and an image event can name a key of the
\* index whose file is stored, while a capture is already in its download.
C12_Witness ==
  /\ \E gu \in Pairs : gu \in DOMAIN awaiting /\ now <= awaiting[gu]
  /\ \E msg \in Messages : MatchAndFetch(msg) # None
  /\ \E t \in BagToSet(pending) : t.handler = "on_group_message"

\* the positions of the image segments of msg whose identifier's stem, in
\* upper case, is a key of the index; with stored, only those whose
\* indexed file is in the store
KeySegments(msg, stored) ==
  {i \in 1..Len(msg) :
     /\ msg[i].type = "Image"
     /\ Upper(PathStem(msg[i].file)) \in DOMAIN index
     /\ stored => index[Upper(PathStem(msg[i].file))] \in files}

\* what an event that is not captured is answered with (with stored, the
\* repost of the first such segment whenever there is one; without, that
\* repost or nothing), and that its handling changes neither the index
\* nor the alias table
RepostRule(stored) ==
  \A gu \in Pairs, msg \in Messages :
    LET hits == KeySegments(msg, stored)
        first == CHOOSE i \in hits : \A j \in hits : i <= j
    IN ~(HasImage(msg) /\ gu \in DOMAIN awaiting /\ now <= awaiting[gu]) =>
         /\ IF hits = {} THEN on_group_message_reply(gu, msg) = NoReply
            ELSE \/ on_group_message_reply(gu, msg) =
                      Repost(index[Upper(PathStem(msg[first].file))])
                 \/ ~stored /\ on_group_message_reply(gu, msg) = NoReply
         /\ ~ENABLED (on_group_message(gu, msg)
                        /\ <<index, alias, index_json, alias_json>>'
                             # <<index, alias, index_json, alias_json>>)

\* C13, as amended: an event on the repost path is answered with at most
\* one repost, the stored file of the first image segment whose
\* identifier's stem in upper case is a key of the index and whose indexed
\* file is in the store; the alias table plays no part, and the index and
\* the alias table are left as they were.
C13_RepostFirstStoredMatch == RepostRule(TRUE)

\* C13 as stated: the repost is the stored file of the first image segment
\* whose stem in upper case is a key of the index.
C13_Original == RepostRule(FALSE)

\* C13's case: a message can carry two images that name keys of the
\* index, the first with its file gone from the store and the second with
\* its file there, while the stem of a third image is a bound alias.
C13_Witness ==
  /\ K1 \in DOMAIN index /\ index[K1] \notin files
  /\ K2 \in DOMAIN index /\ index[K2] \in files
  /\ AliasUpperX \in DOMAIN alias

\* what a bind of alias A to key D has to leave behind
Bound(A, D) ==
  /\ DOMAIN alias' = DOMAIN alias \cup {A}
  /\ alias'[A] = D
  /\ \A b \in DOMAIN alias \ {A} : alias'[b] = alias[b]
  /\ alias_json' = FileOf(alias')
  /\ UNCHANGED <<index, index_json, files>>

\* C14: "/meme name" with a key D of the index and an alias A makes the
\* alias table map A to D, whatever A was bound to before, leaves every
\* other alias as it was and the index unchanged, and answers with the
\* binding; other aliases of D stay bound to it.
C14_BindOverwrites ==
  \A k \in KeyTokens :
    LET D == Upper(Strip(k))
    IN D \in DOMAIN index =>
         \A a \in Aliases :
           /\ ENABLED (meme_name(k, a) /\ Bound(Strip(a), D))
           /\ ~ENABLED (meme_name(k, a) /\ ~Bound(Strip(a), D))
           /\ meme_name_reply(k, a) = Named(Strip(a), D)

\* C14's case: two aliases are bound to one key, a third alias to another,
\* and both keys are in the index, so that each alias can be bound anew.
C14_Witness ==
  /\ AliasX \in DOMAIN alias /\ alias[AliasX] = K1
  /\ AliasHex \in DOMAIN alias /\ alias[AliasHex] = K1
  /\ AliasUpperX \in DOMAIN alias /\ alias[AliasUpperX] = K2
  /\ {K1, K2} \subseteq DOMAIN index

\* C15: one arming gives at most one capture: while a capture of a pair is
\* suspended in its download and the pair's session entry is still the
\* one that capture read, no other image event of the pair is ingested as
\* a capture.
C15_OneCapturePerArming ==
  [][vars' = vars \/
       \A t \in BagToSet(pending) :
         (/\ t.handler = "on_group_message"
          /\ t.gu \in DOMAIN awaiting
          /\ awaiting[t.gu] = t.exp) =>
           \A msg \in Messages :
             (HasImage(msg) /\ on_group_message(t.gu, msg)) =>
               /\ on_group_message_reply(t.gu, msg).kind # "added"
               /\ UNCHANGED <<index, files>>]_vars

\* C16: a session armed anew while an earlier capture of the pair is
\* suspended in its download outlives the completion of that capture: when
\* the download returns and the pair's session entry is no longer the one
\* the capture read, the entry is left as it is.
C16_RearmedSessionSurvives ==
  [][vars' = vars \/
       \A t \in BagToSet(pending) :
         (/\ t.handler = "on_group_message"
          /\ t.gu \in DOMAIN awaiting
          /\ awaiting[t.gu] # t.exp) =>
           \A o \in FetchOutcomes :
             FetchReturns(t, o) =>
               /\ t.gu \in DOMAIN awaiting'
               /\ awaiting'[t.gu] = awaiting[t.gu]]_vars

\* C17: a deleted key stays deleted over a reload.  While nothing but the
\* plugin touches the store, a key the index lacks is one that was never
\* added or was deleted with no add since, so the claim is that no
\* "/meme reload" gives the index a key it did not hold.
C17_DeleteSurvivesReload ==
  [][vars' = vars \/
       \A o \in ScanOrders :
         meme_reload(o) => DOMAIN index' \subseteq DOMAIN index]_vars

\* C18: the state a startup leaves, whatever index.json, alias.json and
\* the store directory hold and whether or not the two files parse, has no
\* alias whose key the index lacks.
C18_StartupReconciles ==
  [][vars' = vars \/
       \A index_parses, alias_parses \in BOOLEAN, order \in ScanOrders :
         initialize(index_parses, alias_parses, order) =>
           \A a \in DOMAIN alias' : alias'[a] \in DOMAIN index']_vars

\* index.json holds the index and alias.json the alias table (there is no
\* alias.json before the first alias is saved)
PersistedEqualsMemory ==
  /\ index_json = FileOf(index)
  /\ \/ alias_json = FileOf(alias)
     \/ alias_json = NoFile /\ alias = EmptyDict

\* C19: between operations the two persisted files hold what the memory
\* holds, and a restart, with both files readable, gives the same index
\* and the same alias table again.
C19_RestartReproduces ==
  /\ PersistedEqualsMemory
  /\ \A order \in ScanOrders :
       ~ENABLED (initialize(TRUE, TRUE, order)
                   /\ <<index, alias>>' # <<index, alias>>)

\* C20: from the empty registry, with the store directory touched by
\* nothing but the plugin, every index entry names a file that is in the
\* store and whose name is the entry's key followed by an extension.
C20_IndexNamesStoredFiles ==
  \A k \in DOMAIN index :
    /\ index[k] \in files
    /\ Len(index[k]) > Len(k) + 1
    /\ SubSeq(index[k], 1, Len(k)) = k
    /\ index[k][Len(k) + 1] = 46

\* C20's case: the index holds two keys and the store also holds a file
\* that no entry names.
C20_Witness ==
  /\ {K1, K2} \subseteq DOMAIN index
  /\ \E f \in files : \A k \in DOMAIN index : index[k] # f

====
